---- MODULE Spec2Model ----
(***************************************************************************)
(* Model of the Matterport extraction pipeline of                          *)
(* vocaria/backend/src/matterport_service.py: MatterportService with its   *)
(* transport helpers (_execute_query, get_model_via_rest), the queries     *)
(* built on them and extract_model_data with its three strategies.         *)
(*                                                                         *)
(* Conventions.                                                            *)
(*  - A JSON / Python value is a record [k, s, n, d]: k is its kind        *)
(*    ("absent" = key missing, "null" = None, "str", "num", "other" = a    *)
(*    non-empty list or dict where a scalar was expected).  A str is the   *)
(*    sequence s of its non-empty fragments (ids: one fragment per         *)
(*    character, so that id[:8] is SubSeq).  A num is the rational n/d in  *)
(*    lowest terms (floats are modelled by exact rationals).               *)
(*  - The code between two awaits runs without interleaving; every await   *)
(*    of a helper and the statements that consume its result are one       *)
(*    action each.                                                         *)
(***************************************************************************)
EXTENDS Integers, Sequences, FiniteSets, TLC

VARIABLES
    token_id,       \* MatterportService.token_id
    token_secret,   \* MatterportService.token_secret
    configured,     \* MatterportService.configured
    pc,             \* position of the extract_model_data coroutine
    model_id,       \* argument of extract_model_data
    model_data,     \* local model_data of extract_model_data
    basic_info,     \* local basic_info
    user_models,    \* local user_models
    extended_info,  \* local extended_info
    rest_info,      \* local rest_info
    requests,       \* outbound HTTP requests of the operation in progress
    calls,          \* the extract_model_data coroutines running side by side
    heap,           \* the MatterportModelData objects, by reference
    format_arg,     \* argument of format_for_agent_context
    context,        \* what format_for_agent_context returned
    cancelled,      \* the task awaiting extract_model_data was cancelled
    tours,          \* rows of the table of tours, by id
    leads,          \* rows of the table of leads
    reply           \* what the last request to the API was answered

vars == <<token_id, token_secret, configured, pc, model_id, model_data,
          basic_info, user_models, extended_info, rest_info, requests,
          calls, heap, format_arg, context, cancelled, tours, leads, reply>>

---------------------------------------------------------------------------
(* Bounds of the model *)

\* longest result list the list-models query answers with
MaxList == 2
\* largest room_count the extended query answers with
MaxRooms == 2

---------------------------------------------------------------------------
(* JSON / Python values *)

Absent == [k |-> "absent", s |-> <<>>, n |-> 0, d |-> 1]
Null == [k |-> "null", s |-> <<>>, n |-> 0, d |-> 1]
Other == [k |-> "other", s |-> <<>>, n |-> 0, d |-> 1]
Str(s) == [k |-> "str", s |-> s, n |-> 0, d |-> 1]

RECURSIVE Gcd(_, _)
Gcd(a, b) == IF b = 0 THEN a ELSE Gcd(b, a % b)

Abs(x) == IF x < 0 THEN -x ELSE x

\* the number n/d (d > 0), in lowest terms
Rat(n, d) ==
    LET g == Gcd(Abs(n), d)
    IN  [k |-> "num", s |-> <<>>, n |-> n \div g, d |-> d \div g]

Num(n) == Rat(n, 1)

\* Python truthiness: None, "", 0 and a missing key's None are falsy
Truthy(v) ==
    \/ v.k = "str" /\ v.s # <<>>
    \/ v.k = "num" /\ v.n # 0
    \/ v.k = "other"

\* dict.get(key): None for a missing key
Get(v) == IF v.k = "absent" THEN Null ELSE v

\* dict.get(key, default)
GetDefault(v, default) == IF v.k = "absent" THEN default ELSE v

IsStr(v) == v.k = "str"

RatAdd(a, b) == Rat(a.n * b.d + b.n * a.d, a.d * b.d)

RECURSIVE SumAreas(_)
\* sum(room.area_floor or 0 for room in rooms)
SumAreas(rooms) ==
    IF rooms = <<>> THEN Num(0)
    ELSE RatAdd(IF Truthy(rooms[1].area_floor) THEN rooms[1].area_floor ELSE Num(0),
                SumAreas(Tail(rooms)))

\* str(i) for the small positive integers used in room ids and labels
Digits == <<"1", "2", "3", "4", "5", "6", "7", "8", "9">>
IntStr(i) == IF i \in DOMAIN Digits THEN Digits[i] ELSE "n"

---------------------------------------------------------------------------
(* Data model *)

\* MatterportRoom(id, label, area_floor), the other fields at their defaults
MatterportRoom(id, label, area_floor) ==
    [id |-> id, label |-> label, area_floor |-> area_floor, units |-> "metric"]

\* MatterportModelData(id=model_id), every other field at its default
MatterportModelData(id) ==
    [id |-> id, name |-> Null, description |-> Null,
     address_line1 |-> Null, city |-> Null,
     total_area_floor |-> Null, units |-> "metric",
     rooms |-> <<>>,
     created_at |-> Null, modified_at |-> Null]

\* the value of the locals before they are assigned
Unset == [set |-> FALSE]

---------------------------------------------------------------------------
(* Transport: what the upstream answers, and what the helpers return *)

\* a parsed JSON object of a GraphQL answer, reduced to the keys the code
\* reads; data, model, summary and models are the kinds of those values:
\* "absent", "null" (any falsy value), "other" (truthy, not a dict), "dict";
\* results is "absent", "null", "other" (truthy, not a list) or "list"
EmptyBody ==
    [set |-> TRUE, data |-> "absent", errors |-> <<>>,
     model |-> "absent", name |-> Absent, created |-> Absent,
     modified |-> Absent, summary |-> "absent",
     total_area |-> Absent, room_count |-> Absent,
     models |-> "absent", results |-> "absent", entries |-> <<>>]

\* {"data": None, "errors": [e]}
Failure(e) == [EmptyBody EXCEPT !.data = "null", !.errors = <<e>>]

\* outcomes of one HTTP exchange: an exception of the client (timeout,
\* connection error), a status other than 200, a 200 whose body is not
\* JSON, a 200 whose JSON is not an object, a 200 with a JSON object
Outcomes == {"timeout", "connect_error", "http_error", "invalid_json",
             "not_object", "ok"}

Response(outcome, body) == [outcome |-> outcome, body |-> body]

\* the requests a helper sends: none unless the service is configured
SentAlways(conf, req) == <<req>>
SentTwice(conf, req) == IF conf THEN <<req, req>> ELSE <<>>
Sent(conf, req) == IF conf THEN <<req>> ELSE <<>>

\* _execute_query: the dict it returns for the upstream's response
ExecuteQueryNoCatch(conf, resp) ==
    IF ~conf THEN Failure("API not configured")
    ELSE CASE resp.outcome = "ok" -> resp.body
           [] resp.outcome = "http_error" -> Failure("HTTP error")
           [] resp.outcome = "not_object" -> [EmptyBody EXCEPT !.data = "other"]
           [] OTHER -> Failure(resp.outcome)
ExecuteQuery(conf, resp) ==
    IF ~conf THEN Failure("API not configured")
    ELSE CASE resp.outcome = "ok" -> resp.body
           [] resp.outcome = "http_error" -> Failure("HTTP error")
           [] OTHER -> Failure(resp.outcome)

\* {"error": e}
RestError(e) == [set |-> TRUE, data |-> "absent", name |-> Absent, error |-> <<e>>]

\* get_model_via_rest: a 200 answers {"data": <parsed body>}, whatever the
\* parsed body is
GetModelViaRest(conf, resp) ==
    IF ~conf THEN RestError("API not configured")
    ELSE CASE resp.outcome = "ok" ->
                [set |-> TRUE, data |-> resp.body.data,
                 name |-> resp.body.name, error |-> <<>>]
           [] resp.outcome = "http_error" -> RestError("HTTP error")
           [] OTHER -> RestError(resp.outcome)

\* self.configured as __init__ computes it
ConfiguredAlways(tid, tsecret) == TRUE
Configured(tid, tsecret) == ~(~Truthy(tid) \/ ~Truthy(tsecret))

---------------------------------------------------------------------------
(* The strategies of extract_model_data, as functions of the helper's result *)

Min(a, b) == IF a < b THEN a ELSE b

\* model_id[:8]
PrefixLen == 8
\* models[:3], the entries list_user_models logs
LogFirst == 3

\* strategy 1, basic query: an exception is raised inside the try block
BasicRaisesOnTimeout(r) ==
    \/ r.data = "other"
    \/ r.data = "dict" /\ r.model = "other"
    \/ r.errors = <<"timeout">>
BasicRaises(r) ==
    \/ r.data = "other"
    \/ r.data = "dict" /\ r.model = "other"

\* strategy 1: basic_info.get("data") and basic_info["data"].get("model")
BasicFound(r) == r.data = "dict" /\ r.model = "dict"

\* strategy 1, lines 274-277
ApplyBasic(md, id, r) ==
    [md EXCEPT !.name = GetDefault(r.name, Str(<<"Matterport Model ">> \o id.s)),
               !.created_at = Get(r.created)]

\* an exception raised by list_user_models itself (lines 136-140) or by
\* the lines of strategy 1 that read its result (283-287)
ListRaises(r) ==
    \/ r.data = "other"
    \/ r.data = "dict" /\ r.models = "other"
    \/ r.data = "dict" /\ r.models = "dict"
         /\ \/ r.results \in {"null", "other"}
            \/ /\ r.results = "list"
               /\ \E i \in 1..Min(LogFirst, Len(r.entries)) : ~r.entries[i].dict

\* strategy 1, lines 283-293: the first user model replaces the requested one
ApplyListNoSubstitution(md, id, r) ==
    IF r.data = "dict" /\ r.models = "dict"
    THEN LET models == IF r.results = "list" THEN r.entries ELSE <<>>
         IN  IF models # <<>>
             THEN md
             ELSE [md EXCEPT !.name = Str(<<"Model ">> \o id.s \o <<" (Not Found)">>)]
    ELSE md
ApplyListNoName(md, id, r) ==
    IF r.data = "dict" /\ r.models = "dict"
    THEN LET models == IF r.results = "list" THEN r.entries ELSE <<>>
         IN  IF models # <<>>
             THEN [md EXCEPT !.id = GetDefault(models[1].id, id),
                             !.name = GetDefault(models[1].name,
                                                 Str(<<"User's First Model">>))]
             ELSE md
    ELSE md
ApplyList(md, id, r) ==
    IF r.data = "dict" /\ r.models = "dict"
    THEN LET models == IF r.results = "list" THEN r.entries ELSE <<>>
         IN  IF models # <<>>
             THEN [md EXCEPT !.id = GetDefault(models[1].id, id),
                             !.name = GetDefault(models[1].name,
                                                 Str(<<"User's First Model">>))]
             ELSE [md EXCEPT !.name = Str(<<"Model ">> \o id.s \o <<" (Not Found)">>)]
    ELSE md

\* room i of the rooms strategy 2 synthesizes (label "Habitación i")
GenericRoom(i, area) ==
    MatterportRoom(Str(<<"room_", IntStr(i)>>), Str(<<"Habitacion ", IntStr(i)>>), area)

\* total_area_floor / room_count if total_area_floor else None
RoomArea(total, count) ==
    IF Truthy(total) THEN Rat(total.n, total.d * count) ELSE Null

\* room_count is an int: range(room_count) accepts it
IsInt(v) == v.k = "num" /\ v.d = 1

\* strategy 2, lines 303-320: every assignment made before an exception
\* is raised stays made
ApplyExtended(md, r) ==
    IF r.data = "dict" /\ r.model = "dict"
    THEN LET m1 == [md EXCEPT !.modified_at = Get(r.modified)]
         IN  IF r.summary = "dict"
             THEN LET m2 == [m1 EXCEPT !.total_area_floor = Get(r.total_area)]
                      room_count == GetDefault(r.room_count, Num(0))
                  IN  IF IsInt(room_count) /\ room_count.n > 0
                         /\ ~(Truthy(m2.total_area_floor) /\ m2.total_area_floor.k # "num")
                      THEN [m2 EXCEPT !.rooms = @ \o
                              [i \in 1..room_count.n |->
                                 GenericRoom(i, RoomArea(m2.total_area_floor, room_count.n))]]
                      ELSE m2
             ELSE m1
    ELSE md

\* strategy 3, lines 332-336
ApplyRestOverwrite(md, r) ==
    IF r.data = "dict" /\ Truthy(r.name)
    THEN [md EXCEPT !.name = r.name]
    ELSE md
ApplyRest(md, r) ==
    IF r.data = "dict" /\ Truthy(r.name) /\ ~Truthy(md.name)
    THEN [md EXCEPT !.name = r.name]
    ELSE md

\* line 345 raises: model_data.id[:8] when the id is no str
NameRaises(md) == ~Truthy(md.name) /\ ~IsStr(md.id)

\* lines 343-345
WithName(md) ==
    IF ~Truthy(md.name)
    THEN [md EXCEPT !.name = Str(<<"Propiedad Matterport ">>
                                 \o SubSeq(md.id.s, 1, Min(PrefixLen, Len(md.id.s))))]
    ELSE md

\* lines 350-355 (35.5, 12.8, 18.2, 6.5)
DemoRooms ==
    << MatterportRoom(Str(<<"living">>), Str(<<"Living">>), Rat(355, 10)),
       MatterportRoom(Str(<<"kitchen">>), Str(<<"Cocina">>), Rat(128, 10)),
       MatterportRoom(Str(<<"bedroom1">>), Str(<<"Dormitorio Principal">>), Rat(182, 10)),
       MatterportRoom(Str(<<"bathroom">>), Str(<<"Bano">>), Rat(65, 10)) >>

\* lines 347-357
WithRoomsNoDemo(md) == md
WithRoomsKeepTotal(md) ==
    IF md.rooms = <<>> THEN [md EXCEPT !.rooms = DemoRooms] ELSE md
WithRooms(md) ==
    IF md.rooms = <<>>
    THEN [md EXCEPT !.rooms = DemoRooms, !.total_area_floor = SumAreas(DemoRooms)]
    ELSE md

---------------------------------------------------------------------------
(* Inputs: the model ids asked for, the credentials, the upstream's answers *)

\* "x" and a ten-character id, longer than the eight-character prefix
ModelIds == { Str(<<"x">>),
              Str(<<"a", "b", "c", "d", "e", "f", "g", "h", "i", "j">>) }

\* os.getenv: unset, set to the empty string, set
TokenValues == { Null, Str(<<>>), Str(<<"tok">>) }

\* the values upstream sends for a name
NameValues == { Absent, Null, Str(<<>>), Str(<<"Casa">>), Num(123) }

\* the values upstream sends for an id
IdValues == { Absent, Null, Str(<<"m", "2">>), Num(7) }

FailureOutcomes == Outcomes \ {"ok"}

Failures == { Response(o, EmptyBody) : o \in FailureOutcomes }

Ok(Bodies) == { Response("ok", b) : b \in Bodies }

\* answers to GetModel: {id, name, created} of the model, or no model
BasicBodies ==
    { [EmptyBody EXCEPT !.data = dk] : dk \in {"absent", "null", "other"} }
    \cup { [EmptyBody EXCEPT !.data = "dict", !.model = mk,
                             !.errors = <<"not found">>] : mk \in {"null", "other"} }
    \cup { [EmptyBody EXCEPT !.data = "dict", !.model = "dict", !.name = nm,
                             !.created = Str(<<"2025-01-01">>)] : nm \in NameValues }

\* entries of the result list of ListModels
Entry(id, name) == [dict |-> TRUE, id |-> id, name |-> name]
NotADict == [dict |-> FALSE, id |-> Absent, name |-> Absent]
Entries == { Entry(id, nm) : id \in IdValues, nm \in NameValues }

RECURSIVE Tails(_)
\* what follows the first entry: up to n entries, well-formed or not
Tails(n) ==
    IF n = 0 THEN { <<>> }
    ELSE LET shorter == Tails(n - 1)
         IN  shorter \cup { <<e>> \o t : e \in {NotADict, Entry(Str(<<"m", "3">>), Str(<<"Duplex">>))},
                                         t \in shorter }

ResultLists ==
    { <<e>> : e \in Entries \cup {NotADict} }
    \cup { <<Entry(Str(<<"m", "2">>), Str(<<"Loft">>))>> \o t : t \in Tails(MaxList - 1) }

ListBodies ==
    { [EmptyBody EXCEPT !.data = dk] : dk \in {"null", "other"} }
    \cup { [EmptyBody EXCEPT !.data = "dict", !.models = mk] : mk \in {"null", "other"} }
    \cup { [EmptyBody EXCEPT !.data = "dict", !.models = "dict", !.results = rk]
             : rk \in {"absent", "null", "other"} }
    \cup { [EmptyBody EXCEPT !.data = "dict", !.models = "dict", !.results = "list",
                             !.entries = l] : l \in {<<>>} \cup ResultLists }

\* the values upstream sends for summary.total_area
AreaValues == { Absent, Null, Num(0), Num(120), Str(<<"abc">>) }

\* the values upstream sends for summary.room_count
CountValues == { Absent, Null, Num(-1), Rat(5, 2), Str(<<"3">>) }
               \cup { Num(n) : n \in 0..MaxRooms }

ExtendedBodies ==
    { [EmptyBody EXCEPT !.data = dk] : dk \in {"null", "other"} }
    \cup { [EmptyBody EXCEPT !.data = "dict", !.model = mk] : mk \in {"null", "other"} }
    \cup { [EmptyBody EXCEPT !.data = "dict", !.model = "dict",
                             !.modified = Str(<<"2025-02-02">>), !.summary = sk]
             : sk \in {"absent", "other"} }
    \cup { [EmptyBody EXCEPT !.data = "dict", !.model = "dict",
                             !.modified = Str(<<"2025-02-02">>), !.summary = "dict",
                             !.total_area = ta, !.room_count = rc]
             : ta \in AreaValues, rc \in CountValues }

\* parsed bodies of the REST answer: null, a list, an object with a name
RestBodies ==
    { [EmptyBody EXCEPT !.data = dk] : dk \in {"null", "other"} }
    \cup { [EmptyBody EXCEPT !.data = "dict", !.name = nm]
             : nm \in (NameValues \ {Str(<<"Casa">>)}) \cup {Str(<<"Depto">>)} }

\* a 200 of the REST endpoint is returned as data whatever its JSON is
RestResponses == { Response(o, EmptyBody) : o \in FailureOutcomes \ {"not_object"} }
                 \cup Ok(RestBodies)

\* the answers that can reach a helper: when the service is unconfigured no
\* request is sent and there is nothing to answer
Answers(conf, responses) ==
    IF conf THEN responses ELSE { Response("timeout", EmptyBody) }

Request(op, id) == [op |-> op, id |-> id]

---------------------------------------------------------------------------
(* The service and one extract_model_data call on it *)

TypeOK ==
    /\ configured \in BOOLEAN
    /\ pc \in {"idle", "basic", "s1", "list", "s1_list", "extended", "s2", "rest",
               "s3", "final", "done", "raised", "cancelled"}
    /\ cancelled \in BOOLEAN

\* MatterportService.__init__
Init ==
    /\ token_id \in TokenValues
    /\ token_secret \in TokenValues
    /\ configured = Configured(token_id, token_secret)
    /\ pc = "idle"
    /\ model_id = Null
    /\ model_data = Unset
    /\ basic_info = Unset
    /\ user_models = Unset
    /\ extended_info = Unset
    /\ rest_info = Unset
    /\ requests = <<>>
    /\ calls = <<>>
    /\ heap = <<>>
    /\ format_arg = Unset
    /\ context = Unset
    /\ cancelled = FALSE
    /\ tours = <<>>
    /\ leads = <<>>
    /\ reply = Unset

service == <<token_id, token_secret, configured>>
locals == <<basic_info, user_models, extended_info, rest_info>>
\* the tables and the last answer of the API of main.py
app == <<tours, leads, reply>>
\* the state of the side-by-side calls, of the formatter and of the API,
\* and the cancellation of the calling task
others == <<calls, heap, format_arg, context, cancelled, app>>

\* extract_model_data(id), lines 259-266: a fresh MatterportModelData
Start(id) ==
    /\ pc = "idle"
    /\ pc' = "basic"
    /\ model_id' = id
    /\ model_data' = MatterportModelData(id)
    /\ basic_info' = Unset
    /\ user_models' = Unset
    /\ extended_info' = Unset
    /\ rest_info' = Unset
    /\ requests' = <<>>
    /\ UNCHANGED <<service, others>>

\* line 271: basic_info = await self.get_model_basic_info(model_id)
GetModelBasicInfo ==
    /\ pc = "basic"
    /\ \E resp \in Answers(configured, Failures \cup Ok(BasicBodies)) :
          basic_info' = ExecuteQuery(configured, resp)
    /\ requests' = requests \o Sent(configured, Request("basic", model_id))
    /\ pc' = "s1"
    /\ UNCHANGED <<service, others, model_id, model_data, user_models, extended_info, rest_info>>

\* lines 273-280 and the except of line 295
Strategy1BasicAborts ==
    /\ pc = "s1"
    /\ IF BasicRaises(basic_info)
       THEN pc' = "final" /\ model_data' = model_data
       ELSE IF BasicFound(basic_info)
       THEN pc' = "extended" /\ model_data' = ApplyBasic(model_data, model_id, basic_info)
       ELSE pc' = "list" /\ model_data' = model_data
    /\ UNCHANGED <<service, others, model_id, locals, requests>>
Strategy1Basic ==
    /\ pc = "s1"
    /\ IF BasicRaises(basic_info)
       THEN pc' = "extended" /\ model_data' = model_data
       ELSE IF BasicFound(basic_info)
       THEN pc' = "extended" /\ model_data' = ApplyBasic(model_data, model_id, basic_info)
       ELSE pc' = "list" /\ model_data' = model_data
    /\ UNCHANGED <<service, others, model_id, locals, requests>>

\* line 281: user_models = await self.list_user_models()
ListUserModels ==
    /\ pc = "list"
    /\ \E resp \in Answers(configured, Failures \cup Ok(ListBodies)) :
          user_models' = ExecuteQuery(configured, resp)
    /\ requests' = requests \o Sent(configured, Request("list", Null))
    /\ pc' = "s1_list"
    /\ UNCHANGED <<service, others, model_id, model_data, basic_info, extended_info, rest_info>>

\* lines 283-293 and the except of line 295
Strategy1List ==
    /\ pc = "s1_list"
    /\ model_data' = IF ListRaises(user_models) THEN model_data
                     ELSE ApplyList(model_data, model_id, user_models)
    /\ pc' = "extended"
    /\ UNCHANGED <<service, others, model_id, locals, requests>>

\* line 301: extended_info = await self.get_model_extended_info(model_data.id)
GetModelExtendedInfoRequested ==
    /\ pc = "extended"
    /\ \E resp \in Answers(configured, Failures \cup Ok(ExtendedBodies)) :
          extended_info' = ExecuteQuery(configured, resp)
    /\ requests' = requests \o Sent(configured, Request("extended", model_id))
    /\ pc' = "s2"
    /\ UNCHANGED <<service, others, model_id, model_data, basic_info, user_models, rest_info>>
GetModelExtendedInfo ==
    /\ pc = "extended"
    /\ \E resp \in Answers(configured, Failures \cup Ok(ExtendedBodies)) :
          extended_info' = ExecuteQuery(configured, resp)
    /\ requests' = requests \o Sent(configured, Request("extended", model_data.id))
    /\ pc' = "s2"
    /\ UNCHANGED <<service, others, model_id, model_data, basic_info, user_models, rest_info>>

\* lines 303-325
Strategy2 ==
    /\ pc = "s2"
    /\ model_data' = ApplyExtended(model_data, extended_info)
    /\ pc' = "rest"
    /\ UNCHANGED <<service, others, model_id, locals, requests>>

\* line 330: rest_info = await self.get_model_via_rest(model_data.id)
GetRest ==
    /\ pc = "rest"
    /\ \E resp \in Answers(configured, RestResponses) :
          rest_info' = GetModelViaRest(configured, resp)
    /\ requests' = requests \o Sent(configured, Request("rest", model_data.id))
    /\ pc' = "s3"
    /\ UNCHANGED <<service, others, model_id, model_data, basic_info, user_models, extended_info>>

\* lines 332-341
Strategy3 ==
    /\ pc = "s3"
    /\ model_data' = ApplyRest(model_data, rest_info)
    /\ pc' = "final"
    /\ UNCHANGED <<service, others, model_id, locals, requests>>

\* lines 343-360: the placeholder name, the demo rooms, the return; the
\* TypeError of line 345 is raised outside every try block
Finish ==
    /\ pc = "final"
    /\ IF NameRaises(model_data)
       THEN pc' = "raised" /\ model_data' = model_data
       ELSE pc' = "done" /\ model_data' = WithRooms(WithName(model_data))
    /\ UNCHANGED <<service, others, model_id, locals, requests>>

\* the caller takes the result (or the exception); the service is idle again
Return ==
    /\ pc \in {"done", "raised"}
    /\ pc' = "idle"
    /\ model_id' = Null
    /\ model_data' = Unset
    /\ basic_info' = Unset
    /\ user_models' = Unset
    /\ extended_info' = Unset
    /\ rest_info' = Unset
    /\ requests' = <<>>
    /\ UNCHANGED <<service, others>>

\* the public helpers called on their own: list_user_models(),
\* introspect_schema(), get_model_via_rest(id)
CallHelper(op, id) ==
    /\ pc = "idle"
    /\ requests' = Sent(configured, Request(op, id))
    /\ UNCHANGED <<service, others, pc, model_id, model_data, locals>>

Next ==
    \/ \E id \in ModelIds : Start(id)
    \/ GetModelBasicInfo
    \/ Strategy1Basic
    \/ ListUserModels
    \/ Strategy1List
    \/ GetModelExtendedInfo
    \/ Strategy2
    \/ GetRest
    \/ Strategy3
    \/ Finish
    \/ Return
    \/ CallHelper("list", Null)
    \/ CallHelper("introspect", Null)
    \/ \E id \in ModelIds : CallHelper("rest", id)

Spec == Init /\ [][Next]_vars

---------------------------------------------------------------------------
(* Cancellation of the task that awaits extract_model_data.  It is         *)
(* delivered at an await, as asyncio.CancelledError raised inside the      *)
(* helper; CancelledError derives from BaseException, and every handler    *)
(* of the helpers (lines 205, 255) and of the strategies (lines 295, 324,  *)
(* 340) is an `except Exception`.                                          *)

\* the request the coroutine is waiting on at its await
Outstanding ==
    CASE pc = "basic" -> Request("basic", model_id)
      [] pc = "list" -> Request("list", Null)
      [] pc = "extended" -> Request("extended", model_data.id)
      [] pc = "rest" -> Request("rest", model_data.id)

\* the task is cancelled while a request is outstanding: CancelledError
\* passes every except clause and leaves extract_model_data
CancelAbsorbed ==
    /\ configured
    /\ pc \in {"basic", "list", "extended", "rest"}
    /\ cancelled' = TRUE
    /\ requests' = requests \o <<Outstanding>>
    /\ pc' = CASE pc = "basic" -> "s1" [] pc = "list" -> "s1_list"
               [] pc = "extended" -> "s2" [] pc = "rest" -> "s3"
    /\ basic_info' = IF pc = "basic" THEN Failure("") ELSE basic_info
    /\ user_models' = IF pc = "list" THEN Failure("") ELSE user_models
    /\ extended_info' = IF pc = "extended" THEN Failure("") ELSE extended_info
    /\ rest_info' = IF pc = "rest" THEN RestError("") ELSE rest_info
    /\ UNCHANGED <<service, calls, heap, format_arg, context, app, model_id, model_data>>
Cancel ==
    /\ configured
    /\ pc \in {"basic", "list", "extended", "rest"}
    /\ cancelled' = TRUE
    /\ requests' = requests \o <<Outstanding>>
    /\ pc' = "cancelled"
    /\ UNCHANGED <<service, calls, heap, format_arg, context, app, model_id,
                   model_data, locals>>

\* the caller's await raises CancelledError; the service is idle again
Aborted ==
    /\ pc = "cancelled"
    /\ pc' = "idle"
    /\ cancelled' = FALSE
    /\ model_id' = Null
    /\ model_data' = Unset
    /\ basic_info' = Unset
    /\ user_models' = Unset
    /\ extended_info' = Unset
    /\ rest_info' = Unset
    /\ requests' = <<>>
    /\ UNCHANGED <<service, calls, heap, format_arg, context, app>>

NextCancel ==
    \/ Next
    \/ Cancel
    \/ Aborted

SpecCancel == Init /\ [][NextCancel]_vars

---------------------------------------------------------------------------
(* Areas as the interpreter computes them: IEEE 754 binary64 numbers,      *)
(* rounded to the nearest, ties to even.  A number is its 53-bit           *)
(* significand, most significant bit first, and the exponent of its last   *)
(* bit: the value is m * 2^e.  Only positive normal numbers occur.         *)

\* bits of the significand of a binary64 number
SignificandBits == 53

\* the zero bits appended to a dividend so that the quotient has more
\* bits than a significand
GuardBits == 64

\* the same for a dividend that is a significand and a divisor below 2^9
DivGuardBits == GuardBits - SignificandBits

Zeros(n) == [i \in 1..n |-> 0]

\* the arithmetic below works on groups of ChunkBits bits
ChunkBits == 10
ChunkBase == 2 ^ ChunkBits

\* a bit sequence without its leading zeros
StripZeros(bits) ==
    LET first == CHOOSE i \in 1..(Len(bits) + 1) :
                    /\ i = Len(bits) + 1 \/ bits[i] = 1
                    /\ \A j \in 1..(i - 1) : bits[j] = 0
    IN  SubSeq(bits, first, Len(bits))

RECURSIVE BitsOf(_)
\* the binary digits of the integer n >= 0
BitsOf(n) == IF n = 0 THEN <<>> ELSE BitsOf(n \div 2) \o <<n % 2>>

\* bits, with zeros in front, as a whole number of chunks
Padded(bits, n) == Zeros(n - Len(bits)) \o bits
Whole(n) == ((n + ChunkBits - 1) \div ChunkBits) * ChunkBits

RECURSIVE Value(_)
\* the integer a short bit sequence stands for
Value(bits) ==
    IF bits = <<>> THEN 0
    ELSE 2 * Value(SubSeq(bits, 1, Len(bits) - 1)) + bits[Len(bits)]

\* the chunks of a bit sequence of a whole number of chunks, and back
Chunks(bits) ==
    [c \in 1..(Len(bits) \div ChunkBits) |->
        Value(SubSeq(bits, (c - 1) * ChunkBits + 1, c * ChunkBits))]
Unchunked(chunks) ==
    [i \in 1..(Len(chunks) * ChunkBits) |->
        (chunks[((i - 1) \div ChunkBits) + 1]
            \div (2 ^ (ChunkBits - 1 - ((i - 1) % ChunkBits)))) % 2]

\* bits + 1 for bits that are not all ones
Increment(bits) ==
    LET last == CHOOSE i \in DOMAIN bits :
                   bits[i] = 0 /\ \A j \in (i + 1)..Len(bits) : bits[j] = 1
    IN  [i \in DOMAIN bits |-> IF i < last THEN bits[i] ELSE IF i = last THEN 1 ELSE 0]

\* the binary64 number nearest to bits * 2^e (plus a positive rest below
\* the last bit when sticky), ties to even
RoundBits(bits, e, sticky) ==
    LET b == StripZeros(bits)
        extra == Len(b) - SignificandBits
    IN  IF extra <= 0
        THEN [m |-> b \o Zeros(-extra), e |-> e + extra]
        ELSE LET m == SubSeq(b, 1, SignificandBits)
                 half == b[SignificandBits + 1] = 1
                 rest == sticky \/ \E i \in (SignificandBits + 2)..Len(b) : b[i] = 1
                 up == half /\ (rest \/ m[SignificandBits] = 1)
             IN  IF ~up THEN [m |-> m, e |-> e + extra]
                 ELSE IF \A i \in DOMAIN m : m[i] = 1
                 THEN [m |-> <<1>> \o Zeros(SignificandBits - 1), e |-> e + extra + 1]
                 ELSE [m |-> Increment(m), e |-> e + extra]

RECURSIVE DivideChunks(_, _, _)
\* the quotient chunks and the remainder of the division by n < 2^9 of
\* the number whose chunks follow the remainder rem
DivideChunks(chunks, n, rem) ==
    IF chunks = <<>> THEN [quotient |-> <<>>, rem |-> rem]
    ELSE LET r == rem * ChunkBase + chunks[1]
             rest == DivideChunks(Tail(chunks), n, r % n)
         IN  [quotient |-> <<r \div n>> \o rest.quotient, rem |-> rest.rem]

\* the quotient bits and the remainder of bits / n
LongDivision(bits, n) ==
    LET d == DivideChunks(Chunks(Padded(bits, Whole(Len(bits)))), n, 0)
    IN  [quotient |-> Unchunked(d.quotient), rem |-> d.rem]

\* x / n for a binary64 x and an integer n > 0
FloatDiv(x, n) ==
    LET d == LongDivision(x.m \o Zeros(DivGuardBits), n)
    IN  RoundBits(d.quotient, x.e - DivGuardBits, d.rem # 0)

\* the binary64 number a decimal literal p/q of the upstream's JSON
\* parses to (p alone when q = 1)
FloatOf(p, q) ==
    LET d == LongDivision(BitsOf(p) \o Zeros(GuardBits), q)
    IN  RoundBits(d.quotient, -GuardBits, d.rem # 0)

RECURSIVE AddChunks(_, _, _)
\* the chunks of a + b + carry, one more than those of a and of b
AddChunks(a, b, carry) ==
    IF a = <<>> THEN <<carry>>
    ELSE LET n == Len(a)
             s == a[n] + b[n] + carry
         IN  AddChunks(SubSeq(a, 1, n - 1), SubSeq(b, 1, n - 1), s \div ChunkBase)
             \o <<s % ChunkBase>>

\* x + y for binary64 x and y
FloatAdd(x, y) ==
    LET e == IF x.e < y.e THEN x.e ELSE y.e
        a == x.m \o Zeros(x.e - e)
        b == y.m \o Zeros(y.e - e)
        n == Whole(IF Len(a) > Len(b) THEN Len(a) ELSE Len(b))
    IN  RoundBits(Unchunked(AddChunks(Chunks(Padded(a, n)), Chunks(Padded(b, n)), 0)),
                  e, FALSE)

RECURSIVE FloatSum(_)
\* sum(areas) of a non-empty list, added from the left
FloatSum(areas) ==
    IF Len(areas) = 1 THEN areas[1]
    ELSE FloatAdd(FloatSum(SubSeq(areas, 1, Len(areas) - 1)), areas[Len(areas)])

\* largest room_count of the summaries whose shares are computed in binary64
MaxShares == 3

\* the decimal literals of total_area in the upstream's JSON
ShareTotals ==
    { Num(1), Num(7), Num(85), Num(100), Num(120), Rat(9, 10), Rat(36, 10),
      Rat(999, 10), Rat(2455, 10), Rat(73, 1) }

\* the number a JSON literal parses to
Binary64(v) == FloatOf(v.n, v.d)

\* the demo rooms with their areas as the interpreter holds them
DemoRoomsBinary64 ==
    [i \in DOMAIN DemoRooms |-> [DemoRooms[i] EXCEPT !.area_floor = Binary64(@)]]

\* strategy 2, lines 303-320, for a summary with a positive total_area and
\* an integer room_count: room_count shares of total_area / room_count
ApplyExtendedOneRoomLess(md, r) ==
    LET total == Binary64(r.total_area)
        room_count == r.room_count.n
    IN  [md EXCEPT !.modified_at = Get(r.modified),
                   !.total_area_floor = total,
                   !.rooms = @ \o [i \in 1..(room_count - 1) |->
                                     GenericRoom(i, FloatDiv(total, room_count))]]
ApplyExtendedBinary64(md, r) ==
    LET total == Binary64(r.total_area)
        room_count == r.room_count.n
    IN  [md EXCEPT !.modified_at = Get(r.modified),
                   !.total_area_floor = total,
                   !.rooms = @ \o [i \in 1..room_count |->
                                     GenericRoom(i, FloatDiv(total, room_count))]]

\* the areas of a list of rooms
Areas(rooms) == [i \in DOMAIN rooms |-> rooms[i].area_floor]

\* lines 347-357: the demo rooms and the sum of their areas
WithRoomsBinary64(md) ==
    IF md.rooms = <<>>
    THEN [md EXCEPT !.rooms = DemoRoomsBinary64,
                    !.total_area_floor = FloatSum(Areas(DemoRoomsBinary64))]
    ELSE md

\* an extract_model_data call at the end of strategy 1, the model found
\* under the name "Casa", and the answer to its extended query
InitAreas ==
    /\ token_id = Str(<<"tok">>)
    /\ token_secret = Str(<<"tok">>)
    /\ configured = Configured(token_id, token_secret)
    /\ pc = "s2"
    /\ model_id = Str(<<"x">>)
    /\ model_data = [MatterportModelData(model_id) EXCEPT !.name = Str(<<"Casa">>)]
    /\ basic_info = Unset
    /\ user_models = Unset
    /\ \E ta \in ShareTotals, rc \in 0..MaxShares :
          extended_info = [EmptyBody EXCEPT !.data = "dict", !.model = "dict",
                                            !.modified = Str(<<"2025-02-02">>),
                                            !.summary = "dict",
                                            !.total_area = ta, !.room_count = Num(rc)]
    /\ rest_info = Unset
    /\ requests = <<>>
    /\ calls = <<>>
    /\ heap = <<>>
    /\ format_arg = Unset
    /\ context = Unset
    /\ cancelled = FALSE
    /\ tours = <<>>
    /\ leads = <<>>
    /\ reply = Unset

\* lines 303-325
Strategy2Binary64 ==
    /\ pc = "s2"
    /\ model_data' = ApplyExtendedBinary64(model_data, extended_info)
    /\ pc' = "final"
    /\ UNCHANGED <<service, others, model_id, locals, requests>>

\* lines 343-360
FinishBinary64 ==
    /\ pc = "final"
    /\ model_data' = WithRoomsBinary64(WithName(model_data))
    /\ pc' = "done"
    /\ UNCHANGED <<service, others, model_id, locals, requests>>

NextAreas ==
    \/ Strategy2Binary64
    \/ FinishBinary64

SpecAreas == InitAreas /\ [][NextAreas]_vars

---------------------------------------------------------------------------
(* format_for_agent_context.  The text is the sequence of its fragments;   *)
(* the labels and unit suffixes are written without their accents and      *)
(* superscripts: "Descripcion: ", "Ubicacion: ", "Area total: ", "m2".     *)

\* largest number of rooms of a ModelData handed to the formatter
MaxFormatRooms == 2

DecimalDigits == <<"0", "1", "2", "3", "4", "5", "6", "7", "8", "9">>

RECURSIVE Dec(_)
\* the decimal digits of n >= 0
Dec(n) ==
    IF n < 10 THEN <<DecimalDigits[n + 1]>>
    ELSE Dec(n \div 10) \o <<DecimalDigits[(n % 10) + 1]>>

\* round(10 * |v|) to the nearest integer, ties to even
Tenths(v) ==
    LET num == 10 * Abs(v.n)
        q == num \div v.d
        r == num % v.d
    IN  IF 2 * r > v.d THEN q + 1
        ELSE IF 2 * r = v.d THEN q + (q % 2)
        ELSE q

\* f"{v:.1f}"
Fixed1(v) ==
    LET t == Tenths(v)
    IN  (IF v.n < 0 /\ t # 0 THEN <<"-">> ELSE <<>>)
        \o Dec(t \div 10) \o <<".">> \o <<DecimalDigits[(t % 10) + 1]>>

\* the text an f-string gives for v
Text(v) ==
    CASE v.k = "str" -> v.s
      [] v.k = "num" -> IF v.d = 1 THEN (IF v.n < 0 THEN <<"-">> ELSE <<>>) \o Dec(Abs(v.n))
                        ELSE Fixed1(v)
      [] v.k = "null" -> <<"None">>
      [] OTHER -> <<"[...]">>

RECURSIVE Join(_, _)
\* sep.join(texts)
Join(texts, sep) ==
    IF texts = <<>> THEN <<>>
    ELSE IF Len(texts) = 1 THEN texts[1]
    ELSE texts[1] \o <<sep>> \o Join(Tail(texts), sep)

\* "m²" if units == "metric" else "ft²"
UnitSuffix(units) == IF units = "metric" THEN "m2" ELSE "ft2"

\* lines 443-446: the label, and the area when room.area_floor is truthy
RoomDesc(room) ==
    IF Truthy(room.area_floor)
    THEN room.label.s \o <<" (">> \o Fixed1(room.area_floor)
         \o <<" ", UnitSuffix(room.units), ")">>
    ELSE room.label.s

\* the format spec .1f raises for a value that is no number (lines 437, 446)
FormatRaises(md) ==
    \/ Truthy(md.total_area_floor) /\ md.total_area_floor.k # "num"
    \/ \E i \in DOMAIN md.rooms :
          Truthy(md.rooms[i].area_floor) /\ md.rooms[i].area_floor.k # "num"

\* lines 415-449: context_parts
ContextParts(md) ==
    LET address_parts ==
            (IF Truthy(md.address_line1) THEN <<Text(md.address_line1)>> ELSE <<>>)
            \o (IF Truthy(md.city) THEN <<Text(md.city)>> ELSE <<>>)
    IN  (IF Truthy(md.name) THEN << <<"Propiedad: ">> \o Text(md.name) >> ELSE <<>>)
        \o (IF Truthy(md.description)
            THEN << <<"Descripcion: ">> \o Text(md.description) >> ELSE <<>>)
        \o (IF address_parts # <<>>
            THEN << <<"Ubicacion: ">> \o Join(address_parts, ", ") >> ELSE <<>>)
        \o (IF Truthy(md.total_area_floor)
            THEN << <<"Area total: ">> \o Fixed1(md.total_area_floor)
                    \o <<" ", UnitSuffix(md.units)>> >>
            ELSE <<>>)
        \o (IF md.rooms # <<>>
            THEN << <<"Habitaciones: ">>
                    \o Join([i \in DOMAIN md.rooms |-> RoomDesc(md.rooms[i])], ", ") >>
            ELSE <<>>)

\* line 451: ". ".join(context_parts) + "."
FormatForAgentContext(md) == Join(ContextParts(md), ". ") \o <<".">>

\* what a call of format_for_agent_context ends with
Formatted(md) ==
    IF FormatRaises(md) THEN [set |-> TRUE, raised |-> TRUE, text |-> <<>>]
    ELSE [set |-> TRUE, raised |-> FALSE, text |-> FormatForAgentContext(md)]

\* the rooms of the ModelData values handed to the formatter
RoomInputs ==
    { [id |-> Str(<<"r">>), label |-> Str(<<l>>), area_floor |-> a, units |-> u]
        : l \in {"Living", "Patio"}, a \in {Null, Num(0), Rat(71, 2)},
          u \in {"metric", "imperial"} }

RECURSIVE RoomLists(_)
RoomLists(n) ==
    IF n = 0 THEN { <<>> }
    ELSE LET shorter == RoomLists(n - 1)
         IN  shorter \cup { <<r>> \o l : r \in RoomInputs, l \in { s \in shorter : Len(s) = n - 1 } }

\* ModelData values as the declared field types allow them
FormatInputs ==
    { [MatterportModelData(Str(<<"x">>)) EXCEPT
          !.name = nm, !.description = ds, !.address_line1 = a1, !.city = ct,
          !.total_area_floor = ta, !.units = u, !.rooms = rs]
        : nm \in {Null, Str(<<>>), Str(<<"Casa">>)},
          ds \in {Null, Str(<<"Luminoso">>)},
          a1 \in {Null, Str(<<"Av. Siempreviva 742">>)},
          ct \in {Null, Str(<<"Rosario">>)},
          ta \in {Null, Num(0), Rat(245, 2)},
          u \in {"metric", "imperial"},
          rs \in RoomLists(MaxFormatRooms) }

\* a configured service and a ModelData to format
InitFormat ==
    /\ token_id = Str(<<"tok">>)
    /\ token_secret = Str(<<"tok">>)
    /\ configured = Configured(token_id, token_secret)
    /\ pc = "idle"
    /\ model_id = Null
    /\ model_data = Unset
    /\ basic_info = Unset
    /\ user_models = Unset
    /\ extended_info = Unset
    /\ rest_info = Unset
    /\ requests = <<>>
    /\ calls = <<>>
    /\ heap = <<>>
    /\ format_arg \in FormatInputs
    /\ context = Unset
    /\ cancelled = FALSE
    /\ tours = <<>>
    /\ leads = <<>>
    /\ reply = Unset

\* format_for_agent_context(format_arg): reads its argument, returns the text
FormatCall ==
    /\ format_arg # Unset
    /\ context = Unset
    /\ context' = Formatted(format_arg)
    /\ UNCHANGED <<service, pc, model_id, model_data, locals, requests,
                   calls, heap, format_arg, cancelled, app>>

NextFormat == FormatCall

SpecFormat == InitFormat /\ [][NextFormat]_vars

---------------------------------------------------------------------------
(* Calls of extract_model_data side by side on the one service instance    *)
(* of line 454.  A call runs without interruption from one await to the    *)
(* next; the ModelData it builds is an object of the heap that it reaches  *)
(* through the reference held in its local variable model_data.            *)

\* the coroutines that call extract_model_data
Calls == {"first", "second"}

\* a coroutine that has not called yet
IdleCall ==
    [pc |-> "idle", model_id |-> Null, ref |-> "none",
     basic_info |-> Unset, user_models |-> Unset,
     extended_info |-> Unset, rest_info |-> Unset]

\* line 266: MatterportModelData(id=model_id) is a new object on every
\* call, its rooms list a copy of the default
NewRefShared(c) == "shared"
NewRef(c) == c

\* the answers of the upstream while calls run side by side
ConcurrentBasic ==
    { Response("timeout", EmptyBody) }
    \cup Ok({ b \in BasicBodies : b.model = "null" \/ b.name = Str(<<"Casa">>) })

ConcurrentList ==
    { Response("timeout", EmptyBody) }
    \cup Ok({ b \in ListBodies : b.entries = <<Entry(Str(<<"m", "2">>), Str(<<"Loft">>))>> })

ConcurrentExtended ==
    { Response("timeout", EmptyBody) }
    \cup Ok({ b \in ExtendedBodies : b.total_area = Num(120) /\ b.room_count = Num(MaxRooms) })

ConcurrentRest ==
    { Response("timeout", EmptyBody) }
    \cup Ok({ b \in RestBodies : b.name = Str(<<"Depto">>) })

\* a configured service on which no call has been made
InitConcurrent ==
    /\ token_id = Str(<<"tok">>)
    /\ token_secret = Str(<<"tok">>)
    /\ configured = Configured(token_id, token_secret)
    /\ pc = "idle"
    /\ model_id = Null
    /\ model_data = Unset
    /\ basic_info = Unset
    /\ user_models = Unset
    /\ extended_info = Unset
    /\ rest_info = Unset
    /\ requests = <<>>
    /\ calls = [c \in Calls |-> IdleCall]
    /\ heap = <<>>
    /\ format_arg = Unset
    /\ context = [c \in Calls |-> Unset]
    /\ cancelled = FALSE
    /\ tours = <<>>
    /\ leads = <<>>
    /\ reply = Unset

single == <<pc, model_id, model_data, locals, format_arg, cancelled, app>>

\* lines 259-271: the call of coroutine c, up to the await of the basic query
ExtractStart(c, id) ==
    /\ calls[c].pc = "idle"
    /\ heap' = [r \in DOMAIN heap \cup {NewRef(c)} |->
                  IF r = NewRef(c) THEN MatterportModelData(id) ELSE heap[r]]
    /\ calls' = [calls EXCEPT ![c] = [IdleCall EXCEPT !.pc = "basic", !.model_id = id,
                                                       !.ref = NewRef(c)]]
    /\ UNCHANGED <<service, single, requests, context>>

\* lines 271-281 and 295-301: the basic query answers; strategy 1 runs up
\* to the await of the list query or of the extended query
ExtractBasic(c) ==
    /\ calls[c].pc = "basic"
    /\ \E resp \in Answers(configured, ConcurrentBasic) :
          LET info == ExecuteQuery(configured, resp)
              md == heap[calls[c].ref]
          IN  /\ heap' = [heap EXCEPT ![calls[c].ref] =
                            IF ~BasicRaises(info) /\ BasicFound(info)
                            THEN ApplyBasic(md, calls[c].model_id, info) ELSE md]
              /\ calls' = [calls EXCEPT
                            ![c].basic_info = info,
                            ![c].pc = IF ~BasicRaises(info) /\ ~BasicFound(info)
                                      THEN "list" ELSE "extended"]
    /\ requests' = requests \o Sent(configured, Request("basic", calls[c].model_id))
    /\ UNCHANGED <<service, single, context>>

\* lines 281-301: the list query answers; strategy 1 ends
ExtractList(c) ==
    /\ calls[c].pc = "list"
    /\ \E resp \in Answers(configured, ConcurrentList) :
          LET info == ExecuteQuery(configured, resp)
              md == heap[calls[c].ref]
          IN  /\ heap' = [heap EXCEPT ![calls[c].ref] =
                            IF ListRaises(info) THEN md
                            ELSE ApplyList(md, calls[c].model_id, info)]
              /\ calls' = [calls EXCEPT ![c].user_models = info, ![c].pc = "extended"]
    /\ requests' = requests \o Sent(configured, Request("list", Null))
    /\ UNCHANGED <<service, single, context>>

\* lines 301-330: the extended query answers; strategy 2 runs
ExtractExtended(c) ==
    /\ calls[c].pc = "extended"
    /\ \E resp \in Answers(configured, ConcurrentExtended) :
          LET info == ExecuteQuery(configured, resp)
          IN  /\ heap' = [heap EXCEPT ![calls[c].ref] = ApplyExtended(@, info)]
              /\ calls' = [calls EXCEPT ![c].extended_info = info, ![c].pc = "rest"]
    /\ requests' = requests \o Sent(configured, Request("extended", heap[calls[c].ref].id))
    /\ UNCHANGED <<service, single, context>>

\* lines 330-360: the REST request answers; strategy 3, the placeholder
\* name and the demo rooms follow without another await, then the return
ExtractRest(c) ==
    /\ calls[c].pc = "rest"
    /\ \E resp \in Answers(configured, ConcurrentRest) :
          LET info == GetModelViaRest(configured, resp)
              m3 == ApplyRest(heap[calls[c].ref], info)
          IN  /\ heap' = [heap EXCEPT ![calls[c].ref] =
                            IF NameRaises(m3) THEN m3 ELSE WithRooms(WithName(m3))]
              /\ calls' = [calls EXCEPT
                            ![c].rest_info = info,
                            ![c].pc = IF NameRaises(m3) THEN "raised" ELSE "done"]
    /\ requests' = requests \o Sent(configured, Request("rest", heap[calls[c].ref].id))
    /\ UNCHANGED <<service, single, context>>

\* format_for_agent_context(model_data) on the result of coroutine c
FormatResultEmptying(c) ==
    /\ calls[c].pc = "done"
    /\ context[c] = Unset
    /\ context' = [context EXCEPT ![c] = Formatted(heap[calls[c].ref])]
    /\ heap' = [heap EXCEPT ![calls[c].ref].rooms = <<>>]
    /\ UNCHANGED <<service, single, requests, calls>>
FormatResult(c) ==
    /\ calls[c].pc = "done"
    /\ context[c] = Unset
    /\ context' = [context EXCEPT ![c] = Formatted(heap[calls[c].ref])]
    /\ UNCHANGED <<service, single, requests, calls, heap>>

NextConcurrent ==
    \E c \in Calls :
       \/ \E id \in ModelIds : ExtractStart(c, id)
       \/ ExtractBasic(c)
       \/ ExtractList(c)
       \/ ExtractExtended(c)
       \/ ExtractRest(c)
       \/ FormatResult(c)

SpecConcurrent == InitConcurrent /\ [][NextConcurrent]_vars

---------------------------------------------------------------------------
(* Vocabulary of the properties *)

\* extract_model_data has returned a ModelData
Returned == pc = "done"

\* strategy 1 took the branch of line 278: the basic query gave no model
BasicNoModel ==
    /\ basic_info # Unset
    /\ ~BasicRaises(basic_info)
    /\ ~BasicFound(basic_info)

\* the list query answered with a result list that the code read to its end
ListReturned(nonempty) ==
    /\ BasicNoModel
    /\ user_models # Unset
    /\ ~ListRaises(user_models)
    /\ user_models.data = "dict"
    /\ user_models.models = "dict"
    /\ user_models.results = "list"
    /\ (user_models.entries # <<>>) = nonempty

\* an exception is raised inside the try block of strategy 2
ExtendedRaises(r) ==
    \/ r.data = "other"
    \/ r.data = "dict" /\ r.model = "other"
    \/ r.data = "dict" /\ r.model = "dict" /\ r.summary = "other"
    \/ /\ r.data = "dict" /\ r.model = "dict" /\ r.summary = "dict"
       /\ LET room_count == GetDefault(r.room_count, Num(0))
              total == Get(r.total_area)
          IN  \/ room_count.k # "num"
              \/ /\ room_count.n > 0
                 /\ \/ room_count.d # 1
                    \/ Truthy(total) /\ total.k # "num"

\* strategy 2 failed: its request failed, or its try block raised
ExtendedFailed ==
    /\ extended_info # Unset
    /\ extended_info.errors # <<>> \/ ExtendedRaises(extended_info)

\* strategy 3 failed: its request failed, or its try block raised
RestFailed ==
    /\ rest_info # Unset
    /\ rest_info.error # <<>> \/ rest_info.data = "other"

\* the four synthetic rooms, as the specification lists them
IsSyntheticSet(rooms) ==
    /\ Len(rooms) = 4
    /\ [i \in 1..4 |-> rooms[i].id.s] = <<<<"living">>, <<"kitchen">>, <<"bedroom1">>, <<"bathroom">>>>
    /\ [i \in 1..4 |-> rooms[i].area_floor] = <<Rat(71, 2), Rat(64, 5), Rat(91, 5), Rat(13, 2)>>
    /\ \A i \in 1..4 : rooms[i].units = "metric"

\* f"Propiedad Matterport {id[:8]}"
Placeholder(id) ==
    Str(<<"Propiedad Matterport ">> \o SubSeq(id.s, 1, Min(8, Len(id.s))))

\* every field of the ModelData but its name is the same in a and b
SameButName(a, b) == [a EXCEPT !.name = Null] = [b EXCEPT !.name = Null]

---------------------------------------------------------------------------
(* Properties *)

\* C1: extract_model_data never raises to its caller, whatever the upstream
\* answers to the basic, list, extended and REST requests and whether or
\* not the credentials are configured.
C1_NeverRaises == pc # "raised"

\* C2: the ModelData that extract_model_data returns has at least one room.
C2_RoomsNeverEmpty == Returned => Len(model_data.rooms) >= 1

\* C2 witness: upstream reported a summary with no rooms and the call returned.
C2_Witness ==
    /\ Returned
    /\ extended_info.summary = "dict"
    /\ extended_info.room_count = Num(0)
    /\ Len(model_data.rooms) = 4

\* C3: the ModelData that extract_model_data returns has a name that is a
\* non-empty string.
C3_NameNonEmptyString ==
    Returned => IsStr(model_data.name) /\ model_data.name.s # <<>>

\* C4: with token_id absent, extract_model_data("x") returns the requested
\* id, exactly the four synthetic rooms (35.5, 12.8, 18.2, 6.5, metric) and
\* total_area_floor 73.0.
C4_UnconfiguredResult ==
    (Returned /\ token_id = Null /\ model_id = Str(<<"x">>)) =>
        /\ model_data.id = Str(<<"x">>)
        /\ IsSyntheticSet(model_data.rooms)
        /\ model_data.total_area_floor = Num(73)

\* C4 witness: such a call has returned.
C4_Witness ==
    /\ Returned /\ token_id = Null /\ model_id = Str(<<"x">>)
    /\ model_data.total_area_floor = Num(73)

\* a credential that is unset or empty
AbsentToken(tok) == tok = Null \/ tok = Str(<<>>)

\* C5: the service is unconfigured exactly when token_id or token_secret is
\* absent, and then no operation sends a request: every GraphQL query
\* returns no data with an error, the REST call returns an error.
C5_UnconfiguredNoRequests ==
    /\ ~configured <=> (AbsentToken(token_id) \/ AbsentToken(token_secret))
    /\ ~configured =>
         /\ requests = <<>>
         /\ \A r \in {basic_info, user_models, extended_info} :
               r # Unset => r.data = "null" /\ r.errors # <<>>
         /\ rest_info # Unset => rest_info.data = "absent" /\ rest_info.error # <<>>

\* C5 witness: an unconfigured service has run a whole extraction.
C5_Witness ==
    /\ ~configured /\ Returned
    /\ user_models # Unset /\ rest_info # Unset

\* C6 as stated: when the basic query gives no model and the list is not
\* empty, the returned id and name are those of the first model of the list,
\* and with strategies 2 and 3 failing the rooms are the synthetic set with
\* total_area_floor 73.0.
C6_FirstModelSubstituted ==
    (Returned /\ ListReturned(TRUE)) =>
        /\ model_data.id = user_models.entries[1].id
        /\ model_data.name = user_models.entries[1].name
        /\ (ExtendedFailed /\ RestFailed) =>
              /\ IsSyntheticSet(model_data.rooms)
              /\ model_data.total_area_floor = Num(73)

\* C6 amended: the returned id is the first model's id, or the requested id
\* when the entry has no id; the returned name is the first model's name when
\* that is non-empty, "User's First Model" when the entry has no name, and
\* otherwise the REST name or the placeholder of the substituted id; with
\* strategies 2 and 3 failing the rooms are the synthetic set, total 73.0.
C6_FirstModelSubstitutedAmended ==
    (Returned /\ ListReturned(TRUE)) =>
        LET first == user_models.entries[1]
            id == IF first.id = Absent THEN model_id ELSE first.id
        IN  /\ model_data.id = id
            /\ model_data.name =
                 IF first.name = Absent THEN Str(<<"User's First Model">>)
                 ELSE IF Truthy(first.name) THEN first.name
                 ELSE IF rest_info.data = "dict" /\ Truthy(rest_info.name)
                 THEN rest_info.name
                 ELSE Placeholder(id)
            /\ (ExtendedFailed /\ RestFailed) =>
                  /\ IsSyntheticSet(model_data.rooms)
                  /\ model_data.total_area_floor = Num(73)

\* C6 witness: the scenario of the specification, {id "m2", name "Loft"}
\* substituted for the requested id with strategies 2 and 3 failing.
C6_Witness ==
    /\ Returned /\ ListReturned(TRUE)
    /\ ExtendedFailed /\ RestFailed
    /\ model_data.id = Str(<<"m", "2">>)
    /\ model_data.name = Str(<<"Loft">>)
    /\ model_data.id # model_id

\* C7 as stated: when the basic query gives no model and the list is empty,
\* the returned id is the requested one and the name is the placeholder
\* built from the id's prefix.
C7_EmptyListPlaceholder ==
    (Returned /\ ListReturned(FALSE)) =>
        /\ model_data.id = model_id
        /\ model_data.name = Placeholder(model_id)

\* C7 amended: when the basic query gives no model and the list is empty,
\* the returned id is the requested one and the name is
\* "Model <requested id> (Not Found)", built from the whole id.
C7_EmptyListNotFoundName ==
    (Returned /\ ListReturned(FALSE)) =>
        /\ model_data.id = model_id
        /\ model_data.name = Str(<<"Model ">> \o model_id.s \o <<" (Not Found)">>)

\* C7 witness: an empty list was answered for the ten-character id.
C7_Witness ==
    /\ Returned /\ ListReturned(FALSE)
    /\ Len(model_id.s) > 8
    /\ model_data.name # Placeholder(model_id)

\* the rooms strategy 2 is to add for n rooms sharing the area total
GenericRooms(n, total) ==
    [i \in 1..n |->
       [id |-> Str(<<"room_", IntStr(i)>>),
        label |-> Str(<<"Habitacion ", IntStr(i)>>),
        area_floor |-> IF total.k = "num" THEN Rat(total.n, total.d * n) ELSE Null,
        units |-> "metric"]]

\* C8: a summary with room_count = n > 0 makes strategy 2 add exactly n
\* rooms numbered 1..n, each with area total_area / n (no area when
\* total_area is absent); room_count 0 or absent adds none.
C8_RoomsFromSummary ==
    (pc = "rest" /\ extended_info.summary = "dict"
       /\ Get(extended_info.total_area).k \in {"null", "num"}) =>
        LET room_count == GetDefault(extended_info.room_count, Num(0))
        IN  /\ (IsInt(room_count) /\ room_count.n > 0) =>
                 model_data.rooms =
                     GenericRooms(room_count.n, Get(extended_info.total_area))
            /\ room_count = Num(0) => model_data.rooms = <<>>

\* C9: the REST strategy changes the name only when the REST body has a name
\* and the ModelData has none; a name that strategy 1 obtained is never
\* overwritten; no other field changes.
C9_RestOnlyFillsName == [][
    (pc \in {"rest", "s3"}) =>
       ( /\ SameButName(model_data', model_data)
         /\ (model_data'.name # model_data.name) =>
               ( /\ pc = "s3"
                 /\ rest_info.data = "dict"
                 /\ Truthy(rest_info.name)
                 /\ model_data'.name = rest_info.name )
         /\ Truthy(model_data.name) => (model_data'.name = model_data.name) )
    ]_vars

\* C9 witness: the REST body had a name while the basic query's name stood.
C9_Witness ==
    /\ pc = "final"
    /\ BasicFound(basic_info)
    /\ rest_info.data = "dict"
    /\ rest_info.name = Str(<<"Depto">>)
    /\ model_data.name = Str(<<"Casa">>)

\* C10: the synthetic set is injected if and only if no room exists after
\* the three strategies; then total_area_floor is 73.0 whatever upstream
\* said; otherwise rooms and total_area_floor stay as strategy 2 left them.
C10_SyntheticIffNoRooms == [][
    (pc = "final" /\ pc' = "done") =>
       ( IF model_data.rooms = <<>>
         THEN /\ IsSyntheticSet(model_data'.rooms)
              /\ model_data'.total_area_floor = Num(73)
         ELSE /\ model_data'.rooms = model_data.rooms
              /\ ~IsSyntheticSet(model_data'.rooms)
              /\ model_data'.total_area_floor = model_data.total_area_floor )
    ]_vars

\* C10 witness: upstream gave a total area of 120 and no rooms; the returned
\* total is 73.0.
C10_Witness ==
    /\ Returned
    /\ extended_info.summary = "dict"
    /\ extended_info.total_area = Num(120)
    /\ IsSyntheticSet(model_data.rooms)
    /\ model_data.total_area_floor = Num(73)

\* the operations of the requests sent so far, in order
Ops(reqs) == [i \in DOMAIN reqs |-> reqs[i].op]

\* the order of the requests of one call: basic, list only in the fallback
\* of strategy 1, extended, REST
FullOrders == { <<"basic", "extended", "rest">>,
                <<"basic", "list", "extended", "rest">> }

IsPrefix(s, t) == Len(s) <= Len(t) /\ s = SubSeq(t, 1, Len(s))

\* C11: the strategies run in the order basic, extended, REST and a failed
\* strategy never keeps the later ones from being attempted: once the call
\* is past its strategies each helper has been awaited, and the requests
\* were sent in that order.
C11_StrategiesInOrder ==
    /\ extended_info # Unset => basic_info # Unset
    /\ rest_info # Unset => extended_info # Unset
    /\ pc # "idle" => \E o \in FullOrders : IsPrefix(Ops(requests), o)
    /\ pc \in {"final", "done", "raised"} =>
         /\ basic_info # Unset /\ extended_info # Unset /\ rest_info # Unset
         /\ configured => Ops(requests) \in FullOrders

\* C11 witness: strategy 1 raised on a malformed answer, strategy 2 raised
\* on a malformed summary, and the REST request was still made.
C11_Witness ==
    /\ pc = "final"
    /\ BasicRaises(basic_info)
    /\ ExtendedRaises(extended_info)
    /\ Ops(requests) = <<"basic", "extended", "rest">>

Count(op) == Cardinality({i \in DOMAIN requests : requests[i].op = op})

\* C12: within one call the basic, extended and REST requests are sent at
\* most once each, the list request at most once and only when the basic
\* query gave no model.
C12_NoRetries ==
    pc # "idle" =>
        /\ \A op \in {"basic", "list", "extended", "rest"} : Count(op) <= 1
        /\ Count("list") = 1 => BasicNoModel

\* C12 witness: all four requests failed and four requests were sent.
C12_Witness ==
    /\ Returned
    /\ basic_info.errors # <<>> /\ user_models # Unset /\ user_models.errors # <<>>
    /\ extended_info.errors # <<>> /\ rest_info.error # <<>>
    /\ Len(requests) = 4

\* extract_model_data as a function of what its four helpers return: the
\* ModelData, or the exception of line 345
Pipeline(id, rb, rl, re, rr) ==
    LET md0 == MatterportModelData(id)
        m1 == IF BasicRaises(rb) THEN md0
              ELSE IF BasicFound(rb) THEN ApplyBasic(md0, id, rb)
              ELSE IF ListRaises(rl) THEN md0
              ELSE ApplyList(md0, id, rl)
        m3 == ApplyRest(ApplyExtended(m1, re), rr)
    IN  IF NameRaises(m3) THEN [raised |-> TRUE, md |-> m3]
        ELSE [raised |-> FALSE, md |-> WithRooms(WithName(m3))]

\* how a request fails in transport: timeout, connection error, non-2xx
TransportErrors == {"timeout", "connect_error", "HTTP error"}

\* the results the list query could have had, had it been asked
ListAlternatives ==
    IF user_models # Unset THEN {user_models}
    ELSE { ExecuteQuery(TRUE, a) : a \in Failures \cup Ok(ListBodies) }

\* C13: a timeout of a request is indistinguishable from its other
\* failures: the outcome of the call whose request timed out is the
\* outcome with that request failing by connection error or by a non-2xx
\* status, every other answer being the same.
C13_TimeoutLikeOtherFailures ==
    (pc \in {"done", "raised"} /\ configured) =>
        LET out == [raised |-> pc = "raised", md |-> model_data]
        IN  \A e \in TransportErrors :
              /\ basic_info.errors = <<"timeout">> =>
                   \A rl \in ListAlternatives :
                      Pipeline(model_id, Failure(e), rl, extended_info, rest_info) = out
              /\ (user_models # Unset /\ user_models.errors = <<"timeout">>) =>
                   Pipeline(model_id, basic_info, Failure(e), extended_info, rest_info) = out
              /\ extended_info.errors = <<"timeout">> =>
                   \A rl \in ListAlternatives :
                      Pipeline(model_id, basic_info, rl, Failure(e), rest_info) = out
              /\ rest_info.error = <<"timeout">> =>
                   \A rl \in ListAlternatives :
                      Pipeline(model_id, basic_info, rl, extended_info, RestError(e)) = out

\* C13 witness: the basic request timed out, the list query then put the
\* first user model in place of the requested one, the REST request timed out.
C13_Witness ==
    /\ Returned /\ configured
    /\ basic_info.errors = <<"timeout">>
    /\ rest_info.error = <<"timeout">>
    /\ model_data.id = Str(<<"m", "2">>)

\* what the call of coroutine c ended with
Outcome(c) == [raised |-> calls[c].pc = "raised", md |-> heap[calls[c].ref]]

\* what the call of coroutine c ends with when it runs alone and the
\* upstream gives it the answers it got
Alone(c) ==
    Pipeline(calls[c].model_id, calls[c].basic_info, calls[c].user_models,
             calls[c].extended_info, calls[c].rest_info)

\* C14: calls of extract_model_data that run side by side on the one
\* service do not interfere: each builds a ModelData of its own, and
\* whatever the interleaving of their awaits, what a call ends with is
\* what it ends with alone on the same answers, so that nothing made for
\* one call shows in the result of another.
C14_ConcurrentCallsIndependent ==
    \A c \in Calls :
       /\ calls[c].pc \in {"done", "raised"} => Outcome(c) = Alone(c)
       /\ \A d \in Calls \ {c} :
            (calls[c].pc # "idle" /\ calls[d].pc # "idle") => calls[c].ref # calls[d].ref

\* C14 witness: both calls ended after running interleaved (the second
\* request of the log is not of the call that sent the first), one with the
\* model the list query substituted and generic rooms, the other with the
\* model it asked for and the demo rooms.
C14_Witness ==
    /\ \A c \in Calls : calls[c].pc = "done"
    /\ calls["first"].model_id # calls["second"].model_id
    /\ requests[1].op = "basic" /\ requests[2].op = "basic"
    /\ heap[calls["first"].ref].id = Str(<<"m", "2">>)
    /\ heap[calls["first"].ref].rooms # DemoRooms
    /\ heap[calls["second"].ref].id = calls["second"].model_id
    /\ heap[calls["second"].ref].rooms = DemoRooms

\* the labels that open the five sections, in the order of the text
SectionLabels ==
    <<"Propiedad: ", "Descripcion: ", "Ubicacion: ", "Area total: ", "Habitaciones: ">>

\* the places of a fragment in a text
Places(text, fragment) == { i \in DOMAIN text : text[i] = fragment }

\* a field holds a value: a text that is not empty, a number (0 included)
Present(v) == v # Null /\ v # Str(<<>>)

\* the data under each of the five sections is present
SectionData(md) ==
    << Present(md.name), Present(md.description),
       Present(md.address_line1) \/ Present(md.city),
       Present(md.total_area_floor), md.rooms # <<>> >>

\* the format call of SpecFormat has returned its text
FormatReturned == context # Unset /\ ~context.raised

\* C16: the text holds exactly the sections whose data is present, once
\* each and in the order name, description, location, total area, rooms;
\* it holds no "None" and no label that is followed by nothing.
C16_SectionsExactlyPresent ==
    FormatReturned =>
        LET text == context.text
            data == SectionData(format_arg)
            at(k) == Places(text, SectionLabels[k])
        IN  /\ \A k \in DOMAIN SectionLabels :
                 Cardinality(at(k)) = IF data[k] THEN 1 ELSE 0
            /\ \A j, k \in DOMAIN SectionLabels :
                 j < k => \A p \in at(j), q \in at(k) : p < q
            /\ Places(text, "None") = {}
            /\ \A k \in DOMAIN SectionLabels : \A p \in at(k) :
                 text[p + 1] \notin {". ", "."}

\* the room texts the rooms section is made of: the fragments between the
\* label of the section and the closing period
RoomsSection(text) ==
    LET p == CHOOSE i \in Places(text, "Habitaciones: ") : TRUE
    IN  SubSeq(text, p + 1, Len(text) - 1)

\* a room as its label, followed by its area when one is set
RoomWithArea(room) ==
    IF room.area_floor # Null
    THEN room.label.s \o <<" (">> \o Fixed1(room.area_floor)
         \o <<" ", UnitSuffix(room.units), ")">>
    ELSE room.label.s

\* C17: the rooms section is the rooms of the list, each once and in the
\* order of the list, joined by commas; a room whose area is set, 0
\* included, is "<label> (<area> <unit>)", a room without area its label.
C17_EveryRoomWithItsArea ==
    (FormatReturned /\ format_arg.rooms # <<>>) =>
        /\ Places(context.text, "Habitaciones: ") # {}
        /\ RoomsSection(context.text)
             = Join([i \in DOMAIN format_arg.rooms |-> RoomWithArea(format_arg.rooms[i])], ", ")

\* the unit suffixes of the areas put in parentheses, in the order of the text
RoomSuffixes(text) ==
    LET closing == SelectSeq([i \in DOMAIN text |-> i], LAMBDA i : text[i] = ")")
    IN  [j \in DOMAIN closing |-> text[closing[j] - 1]]

\* the unit systems of the rooms whose area the text shows
ShownRoomUnits(md) ==
    LET shown == SelectSeq(md.rooms, LAMBDA r : Truthy(r.area_floor))
    IN  [j \in DOMAIN shown |-> shown[j].units]

\* m2 for the metric system, ft2 for the imperial one
SuffixOf(units) == CASE units = "metric" -> "m2" [] units = "imperial" -> "ft2"

\* C18: whenever total_area_floor is known the text holds the total-area
\* section, the value with one decimal and m2 for a metric ModelData, ft2
\* for an imperial one; the area of a room carries the suffix of the
\* room's own unit system.
C18_TotalAreaWheneverKnown ==
    FormatReturned =>
        LET text == context.text
            md == format_arg
        IN  /\ md.total_area_floor # Null =>
                 \E p \in Places(text, "Area total: ") :
                    SubSeq(text, p + 1, p + Len(Fixed1(md.total_area_floor)) + 2)
                      = Fixed1(md.total_area_floor) \o <<" ", SuffixOf(md.units)>>
            /\ RoomSuffixes(text)
                 = [j \in DOMAIN ShownRoomUnits(md) |-> SuffixOf(ShownRoomUnits(md)[j])]
\* C19: format_for_agent_context is pure: the step that produces a text
\* sends no request and changes neither a ModelData nor the service; and
\* no step of any call changes a ModelData that was returned.
C19_FormatPureResultImmutable ==
    [][
       ( /\ context' # context =>
              /\ heap' = heap
              /\ requests' = requests
              /\ service' = service
              /\ calls' = calls
         /\ \A c \in Calls :
              calls[c].pc = "done" =>
                  /\ calls'[c] = calls[c]
                  /\ heap'[calls[c].ref] = heap[calls[c].ref] )
    ]_vars

\* C19 witness: the result of the first call was formatted, its rooms are
\* all in the text, and the second call has run to its end as well.
C19_Witness ==
    /\ context["first"] # Unset
    /\ ~context["first"].raised
    /\ Places(context["first"].text, "Habitaciones: ") # {}
    /\ heap[calls["first"].ref].rooms # <<>>
    /\ calls["second"].pc = "done"
    /\ Len(requests) >= 6

\* C20: format_for_agent_context does not raise on a ModelData that
\* extract_model_data returned: every area it formats with one decimal is
\* a number, whatever the upstream sent as total_area.
C20_FormatNeverRaisesOnExtracted ==
    Returned => ~Formatted(model_data).raised

\* C20 witness: the upstream sent a text as total_area; the returned
\* ModelData formats to a text that begins with the property's name.
C20_Witness ==
    /\ Returned
    /\ extended_info.total_area = Str(<<"abc">>)
    /\ ~Formatted(model_data).raised
    /\ Formatted(model_data).text[1] = "Propiedad: "


\* the id the call has resolved: the id of the first user model when
\* strategy 1 substituted it, the requested id otherwise
ResolvedId ==
    IF ListReturned(TRUE)
    THEN GetDefault(user_models.entries[1].id, model_id)
    ELSE model_id

\* C21: the extended query and the REST request of a call are issued for
\* the id strategy 1 resolved: the id of the substituted first user model
\* after a substitution, the requested id when there was none.
C21_LaterRequestsUseResolvedId ==
    pc # "idle" =>
        \A i \in DOMAIN requests :
           requests[i].op \in {"extended", "rest"} => requests[i].id = ResolvedId

\* C21 witness: the first user model "m2" took the place of the requested
\* id, and both later requests were issued for "m2".
C21_Witness ==
    /\ Returned /\ ListReturned(TRUE)
    /\ model_id # Str(<<"m", "2">>)
    /\ Ops(requests) = <<"basic", "list", "extended", "rest">>
    /\ requests[3].id = Str(<<"m", "2">>)
    /\ requests[4].id = Str(<<"m", "2">>)


\* C22: a strategy 2 that fails leaves nothing behind: the returned
\* ModelData is, field by field, the one the call returns when the
\* extended query gives no data at all.
C22_FailedStrategy2IsNoOp ==
    (Returned /\ ExtendedRaises(extended_info)) =>
        model_data = Pipeline(model_id, basic_info, user_models,
                              Failure("timeout"), rest_info).md


\* C23: cancellation of the task while a request of extract_model_data is
\* outstanding aborts the call: no handler of a strategy absorbs it, no
\* request follows it, and the call returns no ModelData, synthetic or not.
C23_CancellationAborts ==
    [][
       ( cancelled' =>
            /\ pc' = "cancelled"
            /\ model_data' = model_data
            /\ cancelled => requests' = requests )
    ]_vars

\* C23 witness: the task was cancelled while the extended query was
\* outstanding; no REST request was issued and the ModelData has no rooms.
C23_Witness ==
    /\ cancelled
    /\ pc = "cancelled"
    /\ Ops(requests) = <<"basic", "extended">>
    /\ rest_info = Unset
    /\ model_data.rooms = <<>>


\* the results the GraphQL helpers returned in the call in progress
QueryResults == {basic_info, user_models, extended_info} \ {Unset}

\* a result of _execute_query that reports a failure: no data, and errors
FailureValue(r) == r.data \in {"absent", "null"} /\ r.errors # <<>>

\* a result of get_model_via_rest that reports a failure: an error, no data
RestFailureValue(r) == r.data = "absent" /\ r.error # <<>>

\* C24 as stated: a transport failure (timeout, connection error, non-200
\* status, a body that is not JSON or not a JSON object) makes
\* _execute_query return no data with errors and get_model_via_rest return
\* an error without data; only a 200 yields data.
C24_FailuresAreValues ==
    configured =>
      /\ \A r \in QueryResults : \A resp \in Failures :
            ExecuteQuery(configured, resp) = r => FailureValue(r)
      /\ rest_info # Unset =>
            \A resp \in RestResponses :
               GetModelViaRest(configured, resp) = rest_info =>
                  /\ (resp.outcome # "ok" \/ resp.body.data # "dict")
                        => RestFailureValue(rest_info)
                  /\ rest_info.data # "absent" => resp.outcome = "ok"

\* C24 amended: get_model_via_rest returns the parsed body of every 200 as
\* data, a JSON object or not, without an error; for every other outcome
\* it returns an error without data, and _execute_query no data with
\* errors for every outcome but a 200 with a JSON object.
C24_FailuresAreValuesButRestBody ==
    configured =>
      /\ \A r \in QueryResults : \A resp \in Failures :
            ExecuteQuery(configured, resp) = r => FailureValue(r)
      /\ rest_info # Unset =>
            \A resp \in RestResponses :
               GetModelViaRest(configured, resp) = rest_info =>
                  /\ resp.outcome # "ok" => RestFailureValue(rest_info)
                  /\ resp.outcome = "ok" =>
                        rest_info.error = <<>> /\ rest_info.data = resp.body.data
                  /\ rest_info.data # "absent" => resp.outcome = "ok"

\* C24 witness: the basic query's 200 carried a JSON list and came back as
\* a failure value; the REST request's 200 carried one and came back as data.
C24_Witness ==
    /\ Returned /\ configured
    /\ basic_info = Failure("not_object")
    /\ rest_info.data = "other"
    /\ rest_info.error = <<>>


\* C25: the id of the returned ModelData is the requested id unless
\* strategy 1 substituted the first user model, and it is always a string.
C25_IdKeptAndString ==
    Returned =>
        /\ ~ListReturned(TRUE) => model_data.id = model_id
        /\ IsStr(model_data.id)


\* C26 as stated: on a returned ModelData whose total_area_floor is set
\* and whose rooms all have an area, the sum of the rooms' areas equals
\* total_area_floor.
C26_AreasSumToTotal ==
    (Returned /\ model_data.total_area_floor # Null
       /\ \A i \in DOMAIN model_data.rooms : model_data.rooms[i].area_floor # Null) =>
        FloatSum(Areas(model_data.rooms)) = model_data.total_area_floor

\* C26 amended: the total of the synthetic set is the sum of its areas,
\* 73.0; every room synthesized by strategy 2 has the area total_area /
\* room_count, and one or two such rooms sum to total_area.
C26_SharesOfTotal ==
    (Returned /\ model_data.total_area_floor # Null
       /\ \A i \in DOMAIN model_data.rooms : model_data.rooms[i].area_floor # Null) =>
        LET rooms == model_data.rooms
            total == model_data.total_area_floor
        IN  IF extended_info.room_count = Num(0)
            THEN /\ total = FloatOf(73, 1)
                 /\ FloatSum(Areas(rooms)) = total
            ELSE /\ Len(rooms) = extended_info.room_count.n
                 /\ total = Binary64(extended_info.total_area)
                 /\ \A i \in DOMAIN rooms : rooms[i].area_floor = FloatDiv(total, Len(rooms))
                 /\ Len(rooms) <= 2 => FloatSum(Areas(rooms)) = total

\* C26 witness: three rooms of 40.0 from a total_area of 120, which sum
\* to the total.
C26_Witness ==
    /\ Returned
    /\ Len(model_data.rooms) = 3
    /\ model_data.total_area_floor = FloatOf(120, 1)
    /\ \A i \in DOMAIN model_data.rooms : model_data.rooms[i].area_floor = FloatOf(40, 1)
    /\ FloatSum(Areas(model_data.rooms)) = model_data.total_area_floor

---------------------------------------------------------------------------
(* The tour handlers of main.py around the service *)

\* the authenticated users, and the caller of a public endpoint
Users == {"u1", "u2"}
Anonymous == "anonymous"

\* most tours created and most leads left in one behaviour
MaxTours == 1
MaxLeads == 1

\* the ids a request names: those of the tours there can be
TourIds == 1..MaxTours

\* the upstream's answers while a handler extracts: each request fails or
\* is answered; the model is named "Casa" or 123, the first listed model
\* has neither id nor name, the summary gives 120 over MaxRooms rooms
AppBasic ==
    { Response("timeout", EmptyBody) }
    \cup Ok({ b \in BasicBodies : b.model = "dict" /\ b.name \in {Str(<<"Casa">>), Num(123)} })
AppList ==
    { Response("timeout", EmptyBody) }
    \cup Ok({ b \in ListBodies : b.entries = <<Entry(Null, Null)>> })
AppExtended ==
    { Response("timeout", EmptyBody) }
    \cup Ok({ b \in ExtendedBodies : b.total_area = Num(120) /\ b.room_count = Num(MaxRooms) })
AppRest ==
    { Response("timeout", EmptyBody) }

\* await matterport_service.extract_model_data(id) with the upstream
\* answering ab, al, ae, ar: the ModelData or the exception
Extract(id, ab, al, ae, ar) ==
    Pipeline(id, ExecuteQuery(configured, ab), ExecuteQuery(configured, al),
             ExecuteQuery(configured, ae), GetModelViaRest(configured, ar))

\* the requests that call sends
ExtractRequests(id, ab, al) ==
    LET rb == ExecuteQuery(configured, ab)
        rl == ExecuteQuery(configured, al)
        md0 == MatterportModelData(id)
        listed == ~BasicRaises(rb) /\ ~BasicFound(rb)
        m1 == IF listed /\ ~ListRaises(rl) THEN ApplyList(md0, id, rl) ELSE md0
    IN  Sent(configured, Request("basic", id))
        \o (IF listed THEN Sent(configured, Request("list", Null)) ELSE <<>>)
        \o Sent(configured, Request("extended", m1.id))
        \o Sent(configured, Request("rest", m1.id))

\* a JSON column: None or a list
NoList == [k |-> "null", items |-> <<>>]
List(items) == [k |-> "list", items |-> items]

\* Tour(owner_id=..., name=..., matterport_model_id=...,
\* matterport_data_imported=False) with its Property
Tour(owner, name, id) ==
    [owner_id |-> owner, name |-> name, matterport_model_id |-> id,
     matterport_data_imported |-> FALSE, room_data |-> NoList,
     agent_context |-> Null, property |-> Null]

\* the row of a deleted tour
Deleted == [deleted |-> TRUE]

\* Property(data_source=..., matterport_import_success=...,
\* matterport_import_errors=...)
Property(source, success, errors) ==
    [data_source |-> source, matterport_import_success |-> success,
     matterport_import_errors |-> errors]

\* select(Tour).where(Tour.id == id)
Exists(id) == id \in DOMAIN tours /\ tours[id] # Deleted

\* select(Tour).where(Tour.id == id, Tour.owner_id == current_user.id)
Owned(u, id) == Exists(id) /\ tours[id].owner_id = u

\* PropertyData(matterport_name=model_data.name, ...,
\* total_area_floor=model_data.total_area_floor, ...) raises a
\* ValidationError for a name that is no string or an area that is no number
PropertyDataRaises(md) ==
    \/ ~(md.name = Null \/ IsStr(md.name))
    \/ ~(md.total_area_floor = Null \/ md.total_area_floor.k = "num")

\* the answer of a handler, every key at its default
Reply(op, user, tour, status) ==
    [set |-> TRUE, op |-> op, user |-> user, tour |-> tour, status |-> status,
     import_status |-> "", data_source |-> "", property_name |-> Null,
     agent_context |-> Null, rooms |-> <<>>, leads |-> <<>>]

\* the names of the tours created, and of the properties uploaded
TourName == Str(<<"Tour">>)
ManualName == Str(<<"Quinta">>)

\* the agent context update_tour_manual_data builds, and its rooms for
\* one bedroom and one bathroom
ManualContext == Str(<<"Property Information:", "- Name: ", "Quinta">>)
ManualRooms ==
    << [label |-> Str(<<"Bedroom 1">>)], [label |-> Str(<<"Bathroom 1">>)],
       [label |-> Str(<<"Living Room">>)], [label |-> Str(<<"Kitchen">>)] >>

\* a service constructed with or without credentials, no tour stored
InitApp ==
    /\ token_id \in {Null, Str(<<"tok">>)}
    /\ token_secret = token_id
    /\ configured = Configured(token_id, token_secret)
    /\ pc = "idle"
    /\ model_id = Null
    /\ model_data = Unset
    /\ basic_info = Unset
    /\ user_models = Unset
    /\ extended_info = Unset
    /\ rest_info = Unset
    /\ requests = <<>>
    /\ calls = <<>>
    /\ heap = <<>>
    /\ format_arg = Unset
    /\ context = Unset
    /\ cancelled = FALSE
    /\ tours = <<>>
    /\ leads = <<>>
    /\ reply = Unset

\* what the handlers leave alone
rest_of_service == <<service, pc, model_id, model_data, locals, calls, heap,
                     format_arg, context, cancelled>>

\* create_tour: the tour, its Property and the import status for what
\* the import did (lines 387-483)
Imported(u, id, ab, al, ae, ar) ==
    LET new_tour == Tour(u, TourName, id)
        out == Extract(id, ab, al, ae, ar)
        md == out.md
        imported == [new_tour EXCEPT !.matterport_data_imported = TRUE,
                                     !.room_data = List(md.rooms)]
        formatted == Formatted(md)
        contexted == [imported EXCEPT !.agent_context = Str(formatted.text)]
        failed == Property("manual", FALSE, "exception")
    IN  IF ~configured
        THEN [tour |-> new_tour, import_status |-> "not_configured",
              property |-> Property("manual", FALSE, "Matterport service not configured")]
        ELSE IF out.raised
        THEN [tour |-> new_tour, import_status |-> "failed", property |-> failed]
        ELSE IF formatted.raised
        THEN [tour |-> imported, import_status |-> "failed", property |-> failed]
        ELSE IF PropertyDataRaises(md)
        THEN [tour |-> contexted, import_status |-> "failed", property |-> failed]
        ELSE [tour |-> contexted, import_status |-> "success",
              property |-> Property("matterport", TRUE, "")]

\* POST /api/tours
CreateTour(u, id, ab, al, ae, ar) ==
    /\ Len(tours) < MaxTours
    /\ LET done == Imported(u, id, ab, al, ae, ar)
       IN  /\ tours' = Append(tours, [done.tour EXCEPT !.property = done.property])
           /\ reply' = [Reply("create_tour", u, Len(tours) + 1, 200) EXCEPT
                          !.import_status = done.import_status]
    /\ requests' = IF configured THEN ExtractRequests(id, ab, al) ELSE <<>>
    /\ UNCHANGED <<rest_of_service, leads>>

\* PUT /api/tours/{tour_id}/manual-data
UpdateTourManualData(u, id) ==
    /\ IF Owned(u, id)
       THEN /\ tours' = [tours EXCEPT ![id] =
                           [@ EXCEPT !.agent_context = ManualContext,
                                     !.matterport_data_imported = TRUE,
                                     !.room_data = List(ManualRooms),
                                     !.name = ManualName]]
            /\ reply' = [Reply("update_tour_manual_data", u, id, 200) EXCEPT
                           !.import_status = "manual"]
       ELSE /\ tours' = tours
            /\ reply' = Reply("update_tour_manual_data", u, id, 404)
    /\ requests' = <<>>
    /\ UNCHANGED <<rest_of_service, leads>>

\* the leads of a tour
LeadsOf(id) ==
    LET OfTour(l) == l.tour_id = id
    IN  SelectSeq(leads, OfTour)
LeadsElsewhere(id) ==
    LET Elsewhere(l) == l.tour_id # id
    IN  SelectSeq(leads, Elsewhere)

\* DELETE /api/tours/{tour_id}; the commit of line 701 is the database's
\* to accept: models.py declares no delete cascade and the foreign keys
\* of the tour's Property and leads are not nullable
DeleteTourAnyUser(u, id, committed) ==
    /\ IF Exists(id)
       THEN IF committed
            THEN /\ tours' = [tours EXCEPT ![id] = Deleted]
                 /\ leads' = LeadsElsewhere(id)
                 /\ reply' = Reply("delete_tour", u, id, 200)
            ELSE /\ UNCHANGED <<tours, leads>>
                 /\ reply' = Reply("delete_tour", u, id, 500)
       ELSE /\ UNCHANGED <<tours, leads>>
            /\ reply' = Reply("delete_tour", u, id, 404)
    /\ requests' = <<>>
    /\ UNCHANGED rest_of_service
DeleteTour(u, id, committed) ==
    /\ IF Owned(u, id)
       THEN IF committed
            THEN /\ tours' = [tours EXCEPT ![id] = Deleted]
                 /\ leads' = LeadsElsewhere(id)
                 /\ reply' = Reply("delete_tour", u, id, 200)
            ELSE /\ UNCHANGED <<tours, leads>>
                 /\ reply' = Reply("delete_tour", u, id, 500)
       ELSE /\ UNCHANGED <<tours, leads>>
            /\ reply' = Reply("delete_tour", u, id, 404)
    /\ requests' = <<>>
    /\ UNCHANGED rest_of_service

\* POST /api/leads, public
CreateLead(id) ==
    /\ Len(leads) < MaxLeads
    /\ IF Exists(id)
       THEN /\ leads' = Append(leads, [tour_id |-> id, email |-> "lead@example.com"])
            /\ reply' = Reply("create_lead", Anonymous, id, 200)
       ELSE /\ leads' = leads
            /\ reply' = Reply("create_lead", Anonymous, id, 404)
    /\ requests' = <<>>
    /\ UNCHANGED <<rest_of_service, tours>>

\* GET /api/tours/{tour_id}/leads
GetTourLeads(u, id) ==
    /\ reply' = IF Owned(u, id)
                THEN [Reply("get_tour_leads", u, id, 200) EXCEPT !.leads = LeadsOf(id)]
                ELSE Reply("get_tour_leads", u, id, 404)
    /\ requests' = <<>>
    /\ UNCHANGED <<rest_of_service, tours, leads>>

\* {"name": room.label, "area": room.area_floor} for every room
ContextRooms(rooms) ==
    [i \in DOMAIN rooms |-> [name |-> rooms[i].label, area |-> rooms[i].area_floor]]

\* GET /api/tours/{tour_id}/context, public
GetTourContext(id, ab, al, ae, ar) ==
    /\ IF ~Exists(id)
       THEN /\ reply' = Reply("get_tour_context", Anonymous, id, 404)
            /\ requests' = <<>>
       ELSE LET tour == tours[id]
                ok == Reply("get_tour_context", Anonymous, id, 200)
                fallback == [ok EXCEPT !.data_source = "none",
                                       !.property_name = tour.name,
                                       !.agent_context = Str(<<"Property: ">> \o tour.name.s)]
            IN  IF Truthy(tour.agent_context)
                THEN /\ reply' = [ok EXCEPT !.data_source = "manual",
                                            !.property_name = tour.name,
                                            !.agent_context = tour.agent_context,
                                            !.rooms = IF tour.room_data.items # <<>>
                                                      THEN tour.room_data.items ELSE <<>>]
                     /\ requests' = <<>>
                ELSE IF Truthy(tour.matterport_model_id)
                THEN LET out == Extract(tour.matterport_model_id, ab, al, ae, ar)
                         formatted == Formatted(out.md)
                     IN  /\ reply' = IF out.raised \/ formatted.raised THEN fallback
                                     ELSE [ok EXCEPT !.data_source = "matterport",
                                                     !.property_name = out.md.name,
                                                     !.agent_context = Str(formatted.text),
                                                     !.rooms = ContextRooms(out.md.rooms)]
                         /\ requests' = ExtractRequests(tour.matterport_model_id, ab, al)
                ELSE /\ reply' = fallback
                     /\ requests' = <<>>
    /\ UNCHANGED <<rest_of_service, tours, leads>>

\* the upstream's answers to one extraction
AppAnswers ==
    Answers(configured, AppBasic) \X Answers(configured, AppList)
    \X Answers(configured, AppExtended) \X Answers(configured, AppRest)

\* the answers to the extraction of get_tour_context: there is nothing
\* to answer unless the tour is stored without an agent context
ContextAnswers(id) ==
    IF Exists(id) /\ ~Truthy(tours[id].agent_context) THEN AppAnswers
    ELSE { <<Response("timeout", EmptyBody), Response("timeout", EmptyBody),
             Response("timeout", EmptyBody), Response("timeout", EmptyBody)>> }

NextApp ==
    \/ \E u \in Users, a \in AppAnswers : CreateTour(u, Str(<<"x">>), a[1], a[2], a[3], a[4])
    \/ \E u \in Users, id \in TourIds : UpdateTourManualData(u, id)
    \/ \E u \in Users, id \in TourIds, committed \in BOOLEAN : DeleteTour(u, id, committed)
    \/ \E id \in TourIds : CreateLead(id)
    \/ \E u \in Users, id \in TourIds : GetTourLeads(u, id)
    \/ \E id \in TourIds : \E a \in ContextAnswers(id) :
          GetTourContext(id, a[1], a[2], a[3], a[4])

SpecApp == InitApp /\ [][NextApp]_vars


---------------------------------------------------------------------------
(* The handlers: import status, stored context, ownership *)

\* every upstream request of an extraction failed
AllFailed(ab, al, ae, ar) ==
    {ab, al, ae} \subseteq Failures /\ ar.outcome # "ok"

\* C27: whenever the service is configured and extract_model_data
\* returns, create_tour stores the tour with matterport_data_imported =
\* true and a Property with data_source "matterport" and
\* matterport_import_success = true and answers import_status "success",
\* even when every upstream request failed; "failed" is not reached
\* through upstream failures alone.
C27_ImportSucceedsWheneverExtracted ==
    [][\A u \in Users : \A a \in AppAnswers :
         (configured /\ CreateTour(u, Str(<<"x">>), a[1], a[2], a[3], a[4])) =>
            LET stored == tours'[reply'.tour]
            IN  /\ ~Extract(Str(<<"x">>), a[1], a[2], a[3], a[4]).raised =>
                     /\ reply'.import_status = "success"
                     /\ stored.matterport_data_imported
                     /\ stored.property.data_source = "matterport"
                     /\ stored.property.matterport_import_success
                /\ AllFailed(a[1], a[2], a[3], a[4]) =>
                     reply'.import_status # "failed"]_vars

\* C28: once create_tour has succeeded with a configured service the
\* stored agent_context of the tour is non-empty, so every later
\* get_tour_context for it returns the stored agent_context and
\* room_data with data_source "manual" and sends no Matterport request;
\* get_tour_context calls extract_model_data only for a tour whose
\* agent_context is empty.
C28_StoredContextServed ==
    /\ [](configured =>
            \A id \in DOMAIN tours :
               tours[id] # Deleted => Truthy(tours[id].agent_context))
    /\ [][\A id \in TourIds : \A a \in AppAnswers :
            (configured /\ Exists(id) /\ GetTourContext(id, a[1], a[2], a[3], a[4])) =>
               /\ reply'.status = 200
               /\ reply'.data_source = "manual"
               /\ reply'.agent_context = tours[id].agent_context
               /\ reply'.rooms = tours[id].room_data.items
               /\ requests' = <<>>]_vars
    /\ [][\A id \in TourIds : \A a \in AppAnswers :
            (GetTourContext(id, a[1], a[2], a[3], a[4]) /\ requests' # <<>>) =>
               ~Truthy(tours[id].agent_context)]_vars

\* the operations reserved to the owner of the tour
OwnerOnly == {"delete_tour", "update_tour_manual_data", "get_tour_leads"}

\* C29: delete_tour, update_tour_manual_data and get_tour_leads act on or
\* reveal a tour only for its owner; for any other user they answer 404
\* and leave the tours (room_data and agent_context included) and the
\* leads unchanged.
C29_OwnerOnlyOperations ==
    [][(reply' # reply /\ reply'.op \in OwnerOnly) =>
         LET u == reply'.user
             id == reply'.tour
         IN  \/ Exists(id) /\ tours[id].owner_id = u
             \/ /\ reply'.status = 404
                /\ reply'.leads = <<>>
                /\ tours' = tours
                /\ leads' = leads]_vars

\* C29 witness: a user asked to delete the tour of another user, which
\* has a lead and an agent context; the answer was 404 and the tour and
\* its lead are there.
C29_Witness ==
    /\ reply # Unset
    /\ reply.op = "delete_tour"
    /\ reply.status = 404
    /\ Exists(reply.tour)
    /\ tours[reply.tour].owner_id # reply.user
    /\ Truthy(tours[reply.tour].agent_context)
    /\ \E i \in DOMAIN leads : leads[i].tour_id = reply.tour


====
